---- MODULE Spec2Model ----
(***************************************************************************)
(* Model of src/src/api/client.js: the axios client whose request          *)
(* interceptor attaches the bearer token and whose response error          *)
(* interceptor refreshes an expired access token, queueing the requests    *)
(* that fail with 401 while a refresh is in progress.                      *)
(*                                                                         *)
(* One action is one run-to-completion slice of the JavaScript event loop: *)
(* a handler together with the promise continuations it makes runnable.    *)
(* The network (the answer to a request, the settlement of the refresh     *)
(* call) is the environment and is nondeterministic.                       *)
(***************************************************************************)
EXTENDS Integers, Sequences, FiniteSets, TLC

\* Number of requests the application issues through apiClient.
NumReqs == 3

Reqs == 1..NumReqs

\* localStorage.getItem of an absent key.
Null == "null"

\* Request URLs, as sequences of path segments.
AuthLogin == <<"auth", "login">>
AuthRegistration == <<"auth", "registration">>
AuthGoogle == <<"auth", "google">>
URLs == {<<"campaigns">>, AuthLogin, AuthRegistration, AuthGoogle}

\* The access token the refresh endpoint returns.
AccessTokens == {"fresh"}

\* Error responses: HTTP 401, or 0 for an error without a response.
NoResponse == 0
Statuses == {401, NoResponse}

\* Ways the refresh call may fail.
RefreshFailures == {401, NoResponse}

VARIABLES
    localStorage,    \* [access_token, refresh_token]
    isRefreshing,    \* the module-level flag
    failedQueue,     \* sequence of the requests whose continuation is queued
    refreshPending,  \* refresh calls (axios.post) awaiting their response
    config,          \* config[r]: url, _retry, Authorization of request r
    phase,           \* phase[r]: where request r is
    outcome,         \* outcome[r]: what the caller's promise settled with
    replays,         \* replays[r]: times r was re-sent through apiClient
    refreshCalls,    \* refresh calls issued so far
    navigations,     \* assignments to window.location.href so far
    burst,           \* history: no request was sent after an answer arrived
    resumed,         \* history: requests settled by the last processQueue,
                     \* in the order in which their continuations ran
    intercepted,     \* a request descriptor handed to the request interceptor
    applied,         \* times the interceptor was applied to it
    headerOnce,      \* history: its Authorization after the first application
    tokenChanged     \* history: access_token was set after that application

vars == <<localStorage, isRefreshing, failedQueue, refreshPending, config,
          phase, outcome, replays, refreshCalls, navigations, burst,
          resumed, intercepted, applied, headerOnce, tokenChanged>>

interceptorVars == <<intercepted, applied, headerOnce, tokenChanged>>

clientVars == <<isRefreshing, failedQueue, refreshPending, config, phase,
                outcome, replays, refreshCalls, navigations, burst, resumed>>

----------------------------------------------------------------------------
\* Values

NoHeader == <<>>

\* `Bearer ${token}`
Bearer(token) == <<"Bearer", token>>

\* JavaScript truthiness of a stored string.
Truthy(s) == s # Null /\ s # ""

\* String.prototype.includes on path segments.
Includes(url, part) ==
    \E i \in 1..Len(url) :
        /\ i + Len(part) - 1 <= Len(url)
        /\ SubSeq(url, i, i + Len(part) - 1) = part

Pending == [kind |-> "pending", status |-> 0, id |-> 0]
Response == [kind |-> "response", status |-> 200, id |-> 0]

\* The error object axios rejects with for request r.
ResponseError(r, status) == [kind |-> "error", status |-> status, id |-> r]

\* The error the n-th refresh call rejects with.
RefreshError(n, status) == [kind |-> "refreshError", status |-> status, id |-> n]

Range(s) == {s[i] : i \in 1..Len(s)}

----------------------------------------------------------------------------
\* Request interceptor

\* The interceptor skipping /auth/google as well.
requestInterceptor_SkipsGoogle(cfg, store) ==
    LET token == store.access_token IN
    IF /\ Truthy(token)
       /\ ~Includes(cfg.url, AuthLogin)
       /\ ~Includes(cfg.url, AuthRegistration)
       /\ ~Includes(cfg.url, AuthGoogle)
    THEN [cfg EXCEPT !.Authorization = Bearer(token)]
    ELSE cfg

\* The interceptor appending the token to the header already there.
requestInterceptor_Appends(cfg, store) ==
    LET token == store.access_token IN
    IF /\ Truthy(token)
       /\ ~Includes(cfg.url, AuthLogin)
       /\ ~Includes(cfg.url, AuthRegistration)
    THEN [cfg EXCEPT !.Authorization = @ \o Bearer(token)]
    ELSE cfg

requestInterceptor(cfg, store) ==
    LET token == store.access_token IN
    IF /\ Truthy(token)
       /\ ~Includes(cfg.url, AuthLogin)
       /\ ~Includes(cfg.url, AuthRegistration)
    THEN [cfg EXCEPT !.Authorization = Bearer(token)]
    ELSE cfg

----------------------------------------------------------------------------
Init ==
    /\ localStorage \in [access_token : {Null, "expired"},
                         refresh_token : {Null, "refresh"}]
    /\ isRefreshing = FALSE
    /\ failedQueue = <<>>
    /\ refreshPending = {}
    /\ config = [r \in Reqs |-> [url |-> <<>>, _retry |-> FALSE,
                                 Authorization |-> NoHeader]]
    /\ phase = [r \in Reqs |-> "new"]
    /\ outcome = [r \in Reqs |-> Pending]
    /\ replays = [r \in Reqs |-> 0]
    /\ refreshCalls = 0
    /\ navigations = 0
    /\ burst = TRUE
    /\ resumed = <<>>
    /\ intercepted = [url |-> <<>>, _retry |-> FALSE,
                      Authorization |-> NoHeader]
    /\ applied = 0
    /\ headerOnce = NoHeader
    /\ tokenChanged = FALSE

\* The application calls apiClient(config) for a new request.  Requests are
\* numbered in the order in which they are sent.
Send(r, url) ==
    /\ phase[r] = "new"
    /\ \A q \in Reqs : q < r => phase[q] # "new"
    /\ config' = [config EXCEPT ![r] =
           requestInterceptor([url |-> url, _retry |-> FALSE,
                               Authorization |-> NoHeader], localStorage)]
    /\ phase' = [phase EXCEPT ![r] = "inflight"]
    /\ burst' = (burst /\ \A q \in Reqs : phase[q] \in {"new", "inflight"}
                                         /\ replays[q] = 0)
    /\ UNCHANGED <<localStorage, isRefreshing, failedQueue, refreshPending,
                   outcome, replays, refreshCalls, navigations, resumed>>
    /\ UNCHANGED interceptorVars

\* Response interceptor, success handler.
onFulfilled(r) ==
    /\ phase[r] = "inflight"
    /\ phase' = [phase EXCEPT ![r] = "done"]
    /\ outcome' = [outcome EXCEPT ![r] = Response]
    /\ UNCHANGED <<localStorage, isRefreshing, failedQueue, refreshPending,
                   config, replays, refreshCalls, navigations, burst,
                   resumed>>
    /\ UNCHANGED interceptorVars

----------------------------------------------------------------------------
\* Response interceptor, error handler

\* The 401 test as a test for any error status.
shouldRefresh_AnyStatus(cfg, status) == ~cfg._retry

\* The 401 test without the _retry guard.
shouldRefresh_NoRetryGuard(cfg, status) == status = 401

\* `if (error.response?.status === 401 && !originalRequest._retry)`
shouldRefresh(cfg, status) == status = 401 /\ ~cfg._retry

\* The URL test without /auth/google.
isAuthEndpoint_NoGoogle(url) ==
    \/ Includes(url, AuthLogin)
    \/ Includes(url, AuthRegistration)

\* The URL test that skips the refresh for authentication endpoints.
isAuthEndpoint(url) ==
    \/ Includes(url, AuthLogin)
    \/ Includes(url, AuthRegistration)
    \/ Includes(url, AuthGoogle)

\* `return Promise.reject(error)`: the caller's promise rejects with error.
Reject(r, error) ==
    /\ phase' = [phase EXCEPT ![r] = "done"]
    /\ outcome' = [outcome EXCEPT ![r] = error]

\* No error: the `null` first argument of processQueue.
NoError == [kind |-> "null", status |-> 0, id |-> 0]

\* processQueue that walks the queue from its end.
processQueue_Reversed(queue, error, token) ==
    [i \in 1..Len(queue) |->
        [req |-> queue[Len(queue) + 1 - i],
         settle |-> IF error # NoError THEN "reject" ELSE "resolve",
         error |-> error,
         token |-> token]]

\* processQueue that settles only the head of the queue.
processQueue_HeadOnly(queue, error, token) ==
    [i \in 1..(IF Len(queue) > 0 THEN 1 ELSE 0) |->
        [req |-> queue[i],
         settle |-> IF error # NoError THEN "reject" ELSE "resolve",
         error |-> error,
         token |-> token]]

\* processQueue: what each queued continuation is settled with, in the
\* order of the forEach.
processQueue(queue, error, token) ==
    [i \in 1..Len(queue) |->
        [req |-> queue[i],
         settle |-> IF error # NoError THEN "reject" ELSE "resolve",
         error |-> error,
         token |-> token]]

\* `originalRequest.headers.Authorization = `Bearer ${token}`;
\*  return apiClient(originalRequest)`: the request goes through the request
\* interceptor again, which reads the store as it is by then.
Replay(cfg, token, store) ==
    requestInterceptor([cfg EXCEPT !.Authorization = Bearer(token)], store)

\* The state of the requests after the continuations in `settled` have run
\* and request `by`, which made the refresh call, was dealt with by `own`.
AfterSettle(settled, store, by, own) ==
    LET Of(r) == CHOOSE i \in 1..Len(settled) : settled[i].req = r
        queued == {settled[i].req : i \in 1..Len(settled)}
        replayed == {r \in queued : settled[Of(r)].settle = "resolve"}
                       \cup (IF own.settle = "resolve" THEN {by} ELSE {})
        how(r) == IF r = by THEN own ELSE settled[Of(r)]
        touched == queued \cup {by}
    IN  /\ config' = [r \in Reqs |->
               IF r \in replayed
               THEN Replay(config[r], how(r).token, store)
               ELSE config[r]]
        /\ phase' = [r \in Reqs |->
               IF r \in replayed THEN "inflight"
               ELSE IF r \in touched THEN "done"
               ELSE phase[r]]
        /\ outcome' = [r \in Reqs |->
               IF r \in touched \ replayed THEN how(r).error ELSE outcome[r]]
        /\ replays' = [r \in Reqs |->
               IF r \in replayed THEN replays[r] + 1 ELSE replays[r]]
        /\ resumed' = [i \in 1..Len(settled) |-> settled[i].req]

\* IssueRefresh without `originalRequest._retry = true`.
IssueRefresh_NoMark(r) ==
    /\ config' = config
    /\ isRefreshing' = TRUE
    /\ refreshPending' = refreshPending \cup
           {[by |-> r, refresh |-> localStorage.refresh_token,
             n |-> refreshCalls + 1]}
    /\ refreshCalls' = refreshCalls + 1
    /\ phase' = [phase EXCEPT ![r] = "refreshing"]
    /\ UNCHANGED <<localStorage, failedQueue, outcome, replays, navigations>>

\* 401 while idle and a refresh token in the store: the refresh call is
\* issued and the handler awaits its response.
IssueRefresh(r) ==
    /\ config' = [config EXCEPT ![r]._retry = TRUE]
    /\ isRefreshing' = TRUE
    /\ refreshPending' = refreshPending \cup
           {[by |-> r, refresh |-> localStorage.refresh_token,
             n |-> refreshCalls + 1]}
    /\ refreshCalls' = refreshCalls + 1
    /\ phase' = [phase EXCEPT ![r] = "refreshing"]
    /\ UNCHANGED <<localStorage, failedQueue, outcome, replays, navigations>>

\* Enqueue without the isRefreshing gate: the 401 starts its own refresh.
Enqueue_Ungated(r) == IssueRefresh(r)

\* Enqueue that first rejects the continuations already queued.
Enqueue_Flushes(r) ==
    /\ failedQueue' = <<r>>
    /\ phase' = [q \in Reqs |->
           IF q = r THEN "queued"
           ELSE IF q \in Range(failedQueue) THEN "done"
           ELSE phase[q]]
    /\ outcome' = [q \in Reqs |->
           IF q \in Range(failedQueue) THEN ResponseError(r, 401)
           ELSE outcome[q]]
    /\ UNCHANGED <<localStorage, isRefreshing, refreshPending, config,
                   replays, refreshCalls, navigations>>

\* 401 while a refresh is in progress: the continuation is queued.
Enqueue(r) ==
    /\ failedQueue' = Append(failedQueue, r)
    /\ phase' = [phase EXCEPT ![r] = "queued"]
    /\ UNCHANGED <<localStorage, isRefreshing, refreshPending, config,
                   outcome, replays, refreshCalls, navigations>>

\* NoRefreshToken without removeItem('access_token').
NoRefreshToken_KeepsAccess(r, error) ==
    /\ config' = [config EXCEPT ![r]._retry = TRUE]
    /\ isRefreshing' = TRUE
    /\ localStorage' = [localStorage EXCEPT !.refresh_token = Null]
    /\ navigations' = navigations + 1
    /\ Reject(r, error)
    /\ UNCHANGED <<failedQueue, refreshPending, replays, refreshCalls>>

\* 401 while idle and no refresh token in the store.
NoRefreshToken(r, error) ==
    /\ config' = [config EXCEPT ![r]._retry = TRUE]
    /\ isRefreshing' = TRUE
    /\ localStorage' = [access_token |-> Null, refresh_token |-> Null]
    /\ navigations' = navigations + 1
    /\ Reject(r, error)
    /\ UNCHANGED <<failedQueue, refreshPending, replays, refreshCalls>>

\* Anything the handler does not recover from is rejected as received.
PassThrough(r, error) ==
    /\ Reject(r, error)
    /\ UNCHANGED <<localStorage, isRefreshing, failedQueue, refreshPending,
                   config, replays, refreshCalls, navigations>>

\* Request r receives an error response with the given status.
onRejected(r, status) ==
    /\ phase[r] = "inflight"
    /\ UNCHANGED <<burst, resumed>>
    /\ UNCHANGED interceptorVars
    /\ IF shouldRefresh(config[r], status)
       THEN IF isAuthEndpoint(config[r].url)
            THEN PassThrough(r, ResponseError(r, status))
            ELSE IF isRefreshing
            THEN Enqueue(r)
            ELSE IF ~Truthy(localStorage.refresh_token)
            THEN NoRefreshToken(r, ResponseError(r, status))
            ELSE IssueRefresh(r)
       ELSE PassThrough(r, ResponseError(r, status))

\* RefreshSucceed without localStorage.setItem('access_token', access).
RefreshSucceed_NoSetItem(by, access) ==
    \E c \in refreshPending :
        /\ c.by = by
        /\ localStorage' = localStorage
        /\ AfterSettle(processQueue(failedQueue, NoError, access),
                       localStorage', by,
                       [settle |-> "resolve", error |-> NoError,
                        token |-> access])
        /\ failedQueue' = <<>>
        /\ isRefreshing' = FALSE
        /\ refreshPending' = refreshPending \ {c}
        /\ UNCHANGED <<refreshCalls, navigations, burst>>
        /\ UNCHANGED interceptorVars

\* RefreshSucceed that also sends the user to the login page.
RefreshSucceed_Navigates(by, access) ==
    \E c \in refreshPending :
        /\ c.by = by
        /\ localStorage' = [localStorage EXCEPT !.access_token = access]
        /\ AfterSettle(processQueue(failedQueue, NoError, access),
                       localStorage', by,
                       [settle |-> "resolve", error |-> NoError,
                        token |-> access])
        /\ failedQueue' = <<>>
        /\ isRefreshing' = FALSE
        /\ refreshPending' = refreshPending \ {c}
        /\ navigations' = navigations + 1
        /\ UNCHANGED <<refreshCalls, burst>>
        /\ UNCHANGED interceptorVars

\* The refresh call made for request `by` succeeds with a new access token.
RefreshSucceed(by, access) ==
    \E c \in refreshPending :
        /\ c.by = by
        /\ localStorage' = [localStorage EXCEPT !.access_token = access]
        /\ AfterSettle(processQueue(failedQueue, NoError, access),
                       localStorage', by,
                       [settle |-> "resolve", error |-> NoError,
                        token |-> access])
        /\ failedQueue' = <<>>
        /\ isRefreshing' = FALSE
        /\ refreshPending' = refreshPending \ {c}
        /\ UNCHANGED <<refreshCalls, navigations, burst>>
        /\ UNCHANGED interceptorVars

\* RefreshFail without the call of processQueue.
RefreshFail_KeepsQueue(by, status) ==
    \E c \in refreshPending :
        LET refreshError == RefreshError(c.n, status) IN
        /\ c.by = by
        /\ AfterSettle(<<>>, localStorage', by,
                       [settle |-> "reject", error |-> refreshError,
                        token |-> Null])
        /\ failedQueue' = failedQueue
        /\ localStorage' = [access_token |-> Null, refresh_token |-> Null]
        /\ navigations' = navigations + 1
        /\ isRefreshing' = FALSE
        /\ refreshPending' = refreshPending \ {c}
        /\ UNCHANGED <<refreshCalls, burst>>
        /\ UNCHANGED interceptorVars

\* The refresh call made for request `by` fails.
RefreshFail(by, status) ==
    \E c \in refreshPending :
        LET refreshError == RefreshError(c.n, status) IN
        /\ c.by = by
        /\ AfterSettle(processQueue(failedQueue, refreshError, Null),
                       localStorage', by,
                       [settle |-> "reject", error |-> refreshError,
                        token |-> Null])
        /\ failedQueue' = <<>>
        /\ localStorage' = [access_token |-> Null, refresh_token |-> Null]
        /\ navigations' = navigations + 1
        /\ isRefreshing' = FALSE
        /\ refreshPending' = refreshPending \ {c}
        /\ UNCHANGED <<refreshCalls, burst>>
        /\ UNCHANGED interceptorVars

Next ==
    \/ \E r \in Reqs, url \in URLs : Send(r, url)
    \/ \E r \in Reqs : onFulfilled(r)
    \/ \E r \in Reqs, status \in Statuses : onRejected(r, status)
    \/ \E by \in Reqs, access \in AccessTokens : RefreshSucceed(by, access)
    \/ \E by \in Reqs, status \in RefreshFailures : RefreshFail(by, status)

Spec == Init /\ [][Next]_vars

\* Every refresh call that was issued eventually settles.
SettleRefresh ==
    \E by \in Reqs :
        \/ \E access \in AccessTokens : RefreshSucceed(by, access)
        \/ \E status \in RefreshFailures : RefreshFail(by, status)

\* Every request sent through apiClient is eventually answered: the client
\* is created with a timeout.
Answer ==
    \E r \in Reqs :
        \/ onFulfilled(r)
        \/ \E status \in Statuses : onRejected(r, status)

FairSpec == Spec /\ WF_vars(SettleRefresh) /\ WF_vars(Answer)

\* The same client with an ordinary server error among the answers, and
\* requests to one ordinary and one authentication endpoint.
ServerError == 500
AllStatuses == Statuses \cup {ServerError}
StatusURLs == {<<"campaigns">>, AuthLogin}

StatusNext ==
    \/ \E r \in Reqs, url \in StatusURLs : Send(r, url)
    \/ \E r \in Reqs : onFulfilled(r)
    \/ \E r \in Reqs, status \in AllStatuses : onRejected(r, status)
    \/ \E by \in Reqs, access \in AccessTokens : RefreshSucceed(by, access)
    \/ \E by \in Reqs, status \in RefreshFailures : RefreshFail(by, status)

StatusSpec == Init /\ [][StatusNext]_vars

----------------------------------------------------------------------------
\* The request interceptor on its own: applied repeatedly to one request
\* descriptor, the stored access token being set in between or not.

\* Times the interceptor is applied to the descriptor.
MaxApply == 2

InterceptURLs ==
    URLs \cup {<<"api", "auth", "login">>, <<"auth", "registration", "verify">>,
              <<"auth", "token", "refresh">>, <<"login", "auth">>}

\* Values of localStorage.getItem('access_token').
StoredTokens == {Null, "", "expired", "fresh"}

\* Authorization headers the caller, or a replay, has set on the descriptor.
CallerHeaders == {NoHeader, Bearer("expired"), Bearer("custom")}

InterceptorInit ==
    /\ localStorage \in [access_token : StoredTokens,
                         refresh_token : {"refresh"}]
    /\ isRefreshing = FALSE
    /\ failedQueue = <<>>
    /\ refreshPending = {}
    /\ config = [r \in Reqs |-> [url |-> <<>>, _retry |-> FALSE,
                                 Authorization |-> NoHeader]]
    /\ phase = [r \in Reqs |-> "new"]
    /\ outcome = [r \in Reqs |-> Pending]
    /\ replays = [r \in Reqs |-> 0]
    /\ refreshCalls = 0
    /\ navigations = 0
    /\ burst = TRUE
    /\ resumed = <<>>
    /\ intercepted \in [url : InterceptURLs, _retry : BOOLEAN,
                        Authorization : CallerHeaders]
    /\ applied = 0
    /\ headerOnce = NoHeader
    /\ tokenChanged = FALSE

\* The request interceptor runs on the descriptor.
Intercept ==
    /\ applied < MaxApply
    /\ intercepted' = requestInterceptor(intercepted, localStorage)
    /\ applied' = applied + 1
    /\ headerOnce' = IF applied = 0 THEN intercepted'.Authorization
                                    ELSE headerOnce
    /\ UNCHANGED <<localStorage, tokenChanged>>
    /\ UNCHANGED clientVars

\* localStorage.setItem('access_token', token) or removeItem('access_token').
SetAccessToken(token) ==
    /\ token # localStorage.access_token
    /\ localStorage' = [localStorage EXCEPT !.access_token = token]
    /\ tokenChanged' = (tokenChanged \/ applied > 0)
    /\ UNCHANGED <<intercepted, applied, headerOnce>>
    /\ UNCHANGED clientVars

InterceptorNext ==
    \/ Intercept
    \/ \E token \in StoredTokens : SetAccessToken(token)

InterceptorSpec == InterceptorInit /\ [][InterceptorNext]_vars

----------------------------------------------------------------------------
\* Properties

Cleared == [access_token |-> Null, refresh_token |-> Null]

\* The authentication endpoints: login, registration, third-party auth.
AuthEndpoints == {AuthLogin, AuthRegistration, AuthGoogle}

\* C1: in every reachable state at most one refresh network call is in
\* flight.
C1_AtMostOneRefreshInFlight == Cardinality(refreshPending) <= 1

\* A 401 was handled while a refresh call was outstanding.
C1_Witness == refreshPending # {} /\ Len(failedQueue) >= 2

\* C2: every continuation pushed onto the pending queue is eventually
\* resolved or rejected, given that every issued refresh call settles.
C2_QueuedEventuallySettled ==
    \A r \in Reqs : (phase[r] = "queued") ~> (phase[r] # "queued")

\* Request r was answered with a 401 that entered the refresh handling.
Got401(r) == config[r]._retry \/ replays[r] > 0 \/ phase[r] = "queued"

\* C3: when all the requests are sent to a non-auth endpoint before any
\* answer arrives (so with the same token, the coordinator being idle) and
\* each is answered with 401, exactly one refresh call is issued in total.
C3_ExactlyOneRefreshPerBurst ==
    (/\ burst
     /\ \A r \in Reqs : /\ phase[r] # "new"
                        /\ config[r].url \notin AuthEndpoints
                        /\ Got401(r))
    => refreshCalls = 1

\* C4: the flag is true exactly while a refresh network call is outstanding.
C4_FlagIffRefreshOutstanding == isRefreshing <=> refreshPending # {}

\* C5: a 401 for a non-retried, non-auth request, handled while idle with no
\* refresh token in the store, removes both tokens, signals navigation,
\* rejects the request with the 401 and makes no refresh call.
C5_NoRefreshTokenTeardown ==
    [][\A r \in Reqs :
         (/\ ~config[r]._retry
          /\ config[r].url \notin AuthEndpoints
          /\ ~isRefreshing
          /\ localStorage.refresh_token = Null
          /\ onRejected(r, 401))
         => (/\ localStorage' = Cleared
             /\ navigations' = navigations + 1
             /\ phase'[r] = "done"
             /\ outcome'[r] = ResponseError(r, 401)
             /\ refreshPending' = refreshPending
             /\ refreshCalls' = refreshCalls)]_vars

\* A request was rejected on the no-refresh-token path, the store holding an
\* access token before.
C5_Witness ==
    \E r \in Reqs :
        /\ config[r]._retry
        /\ config[r].Authorization = Bearer("expired")
        /\ replays[r] = 0
        /\ outcome[r] = ResponseError(r, 401)
        /\ localStorage = Cleared
        /\ navigations = 1
        /\ refreshCalls = 0

\* C6: when the refresh call fails, every queued request and the request
\* that made the call are rejected with that refresh error and not replayed,
\* both tokens are removed and navigation is signalled exactly once.
C6_RefreshFailureRejectsAll ==
    [][\A c \in refreshPending, status \in RefreshFailures :
         RefreshFail(c.by, status)
         => (/\ \A q \in Range(failedQueue) \cup {c.by} :
                   /\ phase'[q] = "done"
                   /\ outcome'[q] = RefreshError(c.n, status)
                   /\ replays'[q] = replays[q]
             /\ localStorage' = Cleared
             /\ navigations' = navigations + 1)]_vars

\* A refresh failed with two requests queued: all three hold its error.
C6_Witness ==
    \E b, q1, q2 \in Reqs :
        /\ q1 # q2
        /\ config[b]._retry /\ ~config[q1]._retry /\ ~config[q2]._retry
        /\ outcome[b].kind = "refreshError"
        /\ outcome[q1] = outcome[b] /\ outcome[q2] = outcome[b]
        /\ localStorage = Cleared
        /\ navigations = 1

\* C7: when the refresh call succeeds with access token T, the store's
\* access_token becomes T and the request that made the call and every
\* queued request are replayed with Authorization: Bearer T.
C7_RefreshSuccessReplaysWithNewToken ==
    [][\A c \in refreshPending, T \in AccessTokens :
         RefreshSucceed(c.by, T)
         => (/\ localStorage'.access_token = T
             /\ \A q \in Range(failedQueue) \cup {c.by} :
                   /\ phase'[q] = "inflight"
                   /\ replays'[q] = replays[q] + 1
                   /\ config'[q].Authorization = Bearer(T))]_vars

\* A request sent with the expired token and queued is in flight again with
\* the new token, as is the request that made the refresh call.
C7_Witness ==
    \E b, q \in Reqs :
        /\ config[b]._retry /\ ~config[q]._retry
        /\ phase[b] = "inflight" /\ phase[q] = "inflight"
        /\ replays[b] = 1 /\ replays[q] = 1
        /\ localStorage.access_token = "fresh"
        /\ config[b].Authorization = Bearer("fresh")
        /\ config[q].Authorization = Bearer("fresh")
        /\ refreshCalls = 1

\* C8: a 401 for a request already marked retried is rejected with that 401
\* and changes neither the flag, the queue, the store nor the refresh calls.
C8_RetriedRequestRejected ==
    [][\A r \in Reqs :
         (config[r]._retry /\ onRejected(r, 401))
         => (/\ phase'[r] = "done"
             /\ outcome'[r] = ResponseError(r, 401)
             /\ UNCHANGED <<isRefreshing, failedQueue, localStorage,
                            refreshPending, refreshCalls, navigations>>)]_vars

\* A replayed request was rejected with its second 401, and a refresh made
\* for another request is outstanding.
C8_Witness ==
    \E r \in Reqs :
        /\ config[r]._retry
        /\ replays[r] = 1
        /\ outcome[r] = ResponseError(r, 401)
        /\ refreshPending # {}
        /\ isRefreshing

\* C9: each originating request is replayed at most once.
C9_ReplayedAtMostOnce == \A r \in Reqs : replays[r] <= 1

\* C10: an error response for a request to an authentication endpoint is
\* rejected as received and changes neither the flag, the queue, the store,
\* the refresh calls nor navigation, whatever the status and the flag.
C10_AuthEndpointBypass ==
    [][\A r \in Reqs, status \in Statuses :
         (config[r].url \in AuthEndpoints /\ onRejected(r, status))
         => (/\ phase'[r] = "done"
             /\ outcome'[r] = ResponseError(r, status)
             /\ UNCHANGED <<isRefreshing, failedQueue, localStorage,
                            refreshPending, refreshCalls, navigations>>)]_vars

\* A request to /auth/google had its 401 rejected, and a refresh call made
\* for another request is outstanding.
C10_Witness ==
    /\ refreshPending # {}
    /\ \E r \in Reqs : /\ config[r].url = AuthGoogle
                       /\ outcome[r] = ResponseError(r, 401)

\* C11: an error response that is not a 401 (another status, or no response
\* at all) is rejected to the caller as received and changes neither the
\* flag, the queue, the store nor navigation, whether or not a refresh is in
\* progress.
C11_OtherErrorsPassThrough ==
    [][\A r \in Reqs, status \in AllStatuses \ {401} :
         onRejected(r, status)
         => (/\ phase'[r] = "done"
             /\ outcome'[r] = ResponseError(r, status)
             /\ UNCHANGED <<isRefreshing, failedQueue, localStorage,
                            refreshPending, refreshCalls, navigations>>)]_vars

\* A request to an ordinary endpoint was rejected with a 500 and another
\* with a network failure, while a refresh call is outstanding.
C11_Witness ==
    \E r1, r2 \in Reqs :
        /\ config[r1].url \notin AuthEndpoints
        /\ config[r2].url \notin AuthEndpoints
        /\ outcome[r1] = ResponseError(r1, ServerError)
        /\ outcome[r2] = ResponseError(r2, NoResponse)
        /\ refreshPending # {}
        /\ isRefreshing
\* C12: when a refresh settles, the queued continuations are resumed (on
\* success) or rejected (on failure) in the order in which they were
\* enqueued, and the queue is empty afterwards.
C12_SettledInEnqueueOrder ==
    [][\A by \in Reqs :
         (\/ \E access \in AccessTokens : RefreshSucceed(by, access)
          \/ \E status \in RefreshFailures : RefreshFail(by, status))
         => (resumed' = failedQueue /\ failedQueue' = <<>>)]_vars

\* Two requests were queued in the order opposite to the one in which they
\* were sent, and a refresh settled them in that order.
C12_Witness ==
    /\ Len(resumed) = 2
    /\ resumed[1] > resumed[2]
    /\ failedQueue = <<>>
    /\ refreshPending = {}
C14_InterceptorIdempotent ==
    (applied >= 2 /\ ~tokenChanged)
    => intercepted.Authorization = headerOnce

\* The interceptor ran twice on a descriptor that came with a header of the
\* caller's, the token not having changed.
C14_Witness ==
    /\ applied = 2
    /\ ~tokenChanged
    /\ localStorage.access_token = "expired"
    /\ intercepted.url = <<"campaigns">>
    /\ headerOnce = Bearer("expired")
    /\ intercepted.Authorization = headerOnce
\* C15: every refresh call is issued for a request that was not marked
\* retried and is marked by the same step, and the mark is never removed; so
\* no request initiates two refresh calls and the calls issued never
\* outnumber the requests.
C15_OneRefreshPerRequest ==
    [][/\ refreshCalls' # refreshCalls =>
            /\ refreshCalls' = refreshCalls + 1
            /\ \E r \in Reqs :
                  /\ ~config[r]._retry
                  /\ config'[r]._retry
                  /\ refreshPending' \ refreshPending =
                         {[by |-> r, refresh |-> localStorage.refresh_token,
                           n |-> refreshCalls']}
       /\ \A r \in Reqs : config[r]._retry => config'[r]._retry
       /\ refreshCalls' <= Cardinality({r \in Reqs : config'[r]._retry})]_vars

\* Two refresh calls were issued, for two requests: the first of them was
\* replayed and its second 401 rejected without a further call.
C15_Witness ==
    /\ refreshCalls = 2
    /\ Cardinality({r \in Reqs : config[r]._retry}) = 2
    /\ \E r \in Reqs :
          /\ config[r]._retry
          /\ replays[r] = 1
          /\ outcome[r] = ResponseError(r, 401)
\* C16: in every reachable state, a non-empty pending queue implies that the
\* refresh-in-progress flag is true.
C16_QueueOnlyWhileRefreshing == failedQueue # <<>> => isRefreshing

\* A request is queued during a second refresh, the queue having been
\* drained when the first one settled.
C16_Witness ==
    /\ failedQueue # <<>>
    /\ isRefreshing
    /\ refreshCalls = 2
    /\ resumed # <<>>

\* C17: a successful refresh sets access_token and changes neither
\* refresh_token nor navigation; a token is removed from the store only in a
\* step that signals navigation, and navigation is signalled, with both
\* tokens removed, only when a refresh fails or a 401 finds no refresh token.
C17_TeardownOnlyOnFailure ==
    [][LET removed ==
               \/ localStorage.access_token # Null
                  /\ localStorage'.access_token = Null
               \/ localStorage.refresh_token # Null
                  /\ localStorage'.refresh_token = Null
       IN  /\ \A by \in Reqs, T \in AccessTokens :
                 RefreshSucceed(by, T)
                 => /\ localStorage' = [localStorage EXCEPT !.access_token = T]
                    /\ navigations' = navigations
           /\ removed => navigations' = navigations + 1
           /\ navigations' # navigations
              => /\ navigations' = navigations + 1
                 /\ localStorage' = Cleared
                 /\ \/ \E by \in Reqs, status \in RefreshFailures :
                          RefreshFail(by, status)
                    \/ /\ localStorage.refresh_token = Null
                       /\ \E r \in Reqs : onRejected(r, 401)]_vars

\* A refresh succeeded: the request was replayed, the store holds the new
\* access token next to the old refresh token, and nothing was signalled.
C17_Witness ==
    /\ localStorage = [access_token |-> "fresh", refresh_token |-> "refresh"]
    /\ navigations = 0
    /\ refreshPending = {}
    /\ \E r \in Reqs : config[r]._retry /\ replays[r] = 1

\* C18: a queued continuation is resumed or rejected, and its request
\* replayed, only by a step in which a refresh call settles; while the call
\* is outstanding the queued requests stay as they are.
C18_QueuedSettleOnlyWithRefresh ==
    [][\A q \in Reqs :
         (/\ phase[q] = "queued"
          /\ \/ phase'[q] # "queued"
             \/ outcome'[q] # outcome[q]
             \/ replays'[q] # replays[q]
             \/ config'[q] # config[q]
             \/ q \notin Range(failedQueue'))
         => \E c \in refreshPending : c \notin refreshPending']_vars

\* Two requests are queued behind an outstanding refresh call, the second
\* having been queued while the first one waited.
C18_Witness ==
    /\ refreshPending # {}
    /\ Len(failedQueue) = 2
    /\ \A i \in 1..2 : /\ phase[failedQueue[i]] = "queued"
                       /\ outcome[failedQueue[i]] = Pending
                       /\ replays[failedQueue[i]] = 0
====
